---------------------------- MODULE Spec2Model ----------------------------
(***************************************************************************)
(* Model of src/pkg_config_gen.rs (cargo-c): the PkgConfig document, its   *)
(* two constructors, its seven mutators and render().                      *)
(*                                                                         *)
(* Text is modelled by TLA+ strings (Len, \o and SubSeq act on them), so    *)
(* render() builds the very characters the code builds and the rendered    *)
(* text can be split into lines again.  A PathBuf is a sequence of units:   *)
(* a run of valid UTF-8 text, or one byte that is not valid UTF-8 (paths   *)
(* are OS strings); Path::display() turns it into text lossily.            *)
(***************************************************************************)
EXTENDS Naturals, Sequences, FiniteSets, TLC

VARIABLES
    pkg,       \* the PkgConfig value (NoPkg before a constructor has run)
    input,     \* the arguments the constructor was called with
    log,       \* the mutator calls made so far, in call order
    rendered   \* what render() returned, for the (at most two) most recent
               \* calls made since the last constructor or mutator call

vars == <<pkg, input, log, rendered>>

(***************************************************************************)
(* Bounds of the model.                                                    *)
(***************************************************************************)
MaxCalls == 2      \* mutator calls made on one document

(***************************************************************************)
(* Paths.                                                                  *)
(***************************************************************************)
\* "<text>".into() for a PathBuf: one run of valid UTF-8.
Path(s) == << [utf8 |-> TRUE, s |-> s] >>

\* A byte that cannot occur in UTF-8 (0xFF), as a path may hold on Unix.
InvalidByte == [utf8 |-> FALSE, s |-> "FF"]

\* Path::display(): valid text as it is, every invalid byte as U+FFFD.
RECURSIVE display(_)
display(p) ==
    IF p = <<>> THEN ""
    ELSE (IF Head(p).utf8 THEN Head(p).s ELSE "�") \o display(Tail(p))

(***************************************************************************)
(* The inputs the operations are called with.                              *)
(***************************************************************************)
\* name: &str
Names == {"foo"}

\* capi_config: &CApiConfig.  The first is the one of test::simple; the
\* description of the third has two lines, as a manifest's description may.
CApiConfigs ==
    { [header     |-> [name |-> "foo", subdirectory |-> TRUE, generation |-> TRUE],
       pkg_config |-> [name |-> "foo", description |-> "", version |-> "0.1"],
       library    |-> [name |-> "foo", version |-> "0.1.0"]],
      [header     |-> [name |-> "bar", subdirectory |-> TRUE, generation |-> TRUE],
       pkg_config |-> [name |-> "libbar", description |-> "Bar", version |-> "1.2.3"],
       library    |-> [name |-> "bar_c", version |-> "1.2.3"]],
      [header     |-> [name |-> "baz", subdirectory |-> FALSE, generation |-> FALSE],
       pkg_config |-> [name |-> "baz", description |-> "Baz\nName: b", version |-> "2.0"],
       library    |-> [name |-> "baz", version |-> "2.0.0"]] }

\* install_paths: &InstallPaths (the fields this file reads)
InstallPathss ==
    { [prefix     |-> Path("/opt/x"),
       includedir |-> Path("/opt/x/inc"),
       libdir     |-> Path("/opt/x/l") \o <<InvalidByte>> \o Path("b")] }

\* args: the options is_present() is asked about
Argss == SUBSET {"includedir", "libdir"}

is_present(args, opt) == opt \in args

\* descr: the texts set_description is called with (any text is accepted)
Descrs == {"", "d\nLibs.private: x"}

\* lib: the texts the four libs mutators are called with
Libs == {"-lbar", "-lm"}

\* flag: the texts the two cflags mutators are called with
Flags == {"-DFOO"}

NoPkg == [none |-> TRUE]

(***************************************************************************)
(* Formatting helpers.                                                     *)
(***************************************************************************)
\* [String]::join(sep)
RECURSIVE join(_, _)
join(v, sep) ==
    IF v = <<>> THEN ""
    ELSE IF Len(v) = 1 THEN v[1]
    ELSE v[1] \o sep \o join(Tail(v), sep)

(***************************************************************************)
(* PkgConfig::new                                                          *)
(***************************************************************************)
\* format!("-L{} -l{}", "${libdir}", capi_config.library.name)
default_libs(capi_config) ==
    "-L" \o "${libdir}" \o " -l" \o capi_config.library.name

\* A slip: the package name where the name argument belongs.
default_cflags_PkgName(name, capi_config) ==
    IF capi_config.header.subdirectory
    THEN "-I" \o "${includedir}" \o "/" \o capi_config.pkg_config.name
    ELSE "-I${includedir}"

\* the one entry of cflags: with or without the header subdirectory
default_cflags(name, capi_config) ==
    IF capi_config.header.subdirectory
    THEN "-I" \o "${includedir}" \o "/" \o name
    ELSE "-I${includedir}"

new(name, capi_config) ==
    [ name        |-> capi_config.pkg_config.name,
      description |-> capi_config.pkg_config.description,
      version     |-> capi_config.pkg_config.version,

      prefix      |-> Path("/usr/local"),
      exec_prefix |-> Path("${prefix}"),
      includedir  |-> Path("${prefix}/include"),
      libdir      |-> Path("${exec_prefix}/lib"),

      libs         |-> << default_libs(capi_config) >>,
      libs_private |-> << >>,

      requires         |-> << >>,
      requires_private |-> << >>,

      cflags |-> << default_cflags(name, capi_config) >>,

      conflicts |-> << >> ]

(***************************************************************************)
(* PkgConfig::from_workspace                                               *)
(***************************************************************************)
\* A slip: libdir taken from the install paths whether or not it was asked for.
from_workspace_AlwaysLibdir(name, install_paths, args, capi_config) ==
    [ new(name, capi_config) EXCEPT
        !.prefix = install_paths.prefix,
        !.includedir = IF is_present(args, "includedir")
                       THEN install_paths.includedir ELSE @,
        !.libdir = install_paths.libdir ]

from_workspace(name, install_paths, args, capi_config) ==
    LET pc0 == new(name, capi_config)
        pc1 == [pc0 EXCEPT !.prefix = install_paths.prefix]
        pc2 == IF is_present(args, "includedir")
               THEN [pc1 EXCEPT !.includedir = install_paths.includedir]
               ELSE pc1
        pc3 == IF is_present(args, "libdir")
               THEN [pc2 EXCEPT !.libdir = install_paths.libdir]
               ELSE pc2
    IN  pc3

(***************************************************************************)
(* The mutators, as functions from the document to the document.           *)
(***************************************************************************)
\* A slip: the text is added to the description instead of replacing it.
set_description_Appending(self, descr) ==
    [self EXCEPT !.description = @ \o descr]

set_description(self, descr) == [self EXCEPT !.description = descr]

\* A slip: libs.clear() without the push.
set_libs_ClearOnly(self, lib) == [self EXCEPT !.libs = << >>]

\* libs.clear(); libs.push(lib)
set_libs(self, lib) == [self EXCEPT !.libs = Append(<< >>, lib)]

add_lib(self, lib) == [self EXCEPT !.libs = Append(@, lib)]

\* The routing the names suggest, which is not the code's.
set_libs_private_OnLibsPrivate(self, lib) ==
    [self EXCEPT !.libs_private = Append(<< >>, lib)]

set_cflags_OnCflags(self, flag) == [self EXCEPT !.cflags = Append(<< >>, flag)]

add_cflag_OnCflags(self, flag) == [self EXCEPT !.cflags = Append(@, flag)]

\* libs.clear(); libs.push(lib): the code acts on libs here
set_libs_private(self, lib) == [self EXCEPT !.libs = Append(<< >>, lib)]

add_lib_private(self, lib) == [self EXCEPT !.libs_private = Append(@, lib)]

\* libs.clear(); libs.push(flag): the code acts on libs here
set_cflags(self, flag) == [self EXCEPT !.libs = Append(<< >>, flag)]

\* libs.push(flag): the code acts on libs here
add_cflag(self, flag) == [self EXCEPT !.libs = Append(@, flag)]

(***************************************************************************)
(* PkgConfig::render                                                       *)
(***************************************************************************)
render(self) ==
    LET base0 == "prefix=" \o display(self.prefix) \o "\n"
                 \o "exec_prefix=" \o display(self.exec_prefix) \o "\n"
                 \o "libdir=" \o display(self.libdir) \o "\n"
                 \o "includedir=" \o display(self.includedir) \o "\n"
                 \o "\n"
                 \o "Name: " \o self.name \o "\n"
                 \o "Description: " \o self.description \o "\n"
                 \o "Version: " \o self.version \o "\n"
                 \o "Libs: " \o join(self.libs, " ") \o "\n"
                 \o "Cflags: " \o join(self.cflags, " ")
        base1 == IF self.libs_private # << >>
                 THEN base0 \o "\n" \o "Libs.private: " \o join(self.libs_private, " ")
                 ELSE base0
        base2 == IF self.requires # << >>
                 THEN base1 \o "\n" \o "Requires: " \o join(self.requires, ", ")
                 ELSE base1
    IN  base2 \o "\n"

(***************************************************************************)
(* The state machine: a constructor call, then mutator and render calls.   *)
(***************************************************************************)
Constructed == pkg # NoPkg

Init ==
    /\ pkg = NoPkg
    /\ input = [ctor |-> "none"]
    /\ log = << >>
    /\ rendered = << >>

New ==
    \E name \in Names, capi_config \in CApiConfigs :
        /\ ~Constructed
        /\ pkg' = new(name, capi_config)
        /\ input' = [ctor |-> "new", name |-> name, capi_config |-> capi_config,
                     install_paths |-> CHOOSE ip \in InstallPathss : TRUE,
                     args |-> {}]
        /\ UNCHANGED <<log, rendered>>

FromWorkspace ==
    \E name \in Names, install_paths \in InstallPathss, args \in Argss,
       capi_config \in CApiConfigs :
        /\ ~Constructed
        /\ pkg' = from_workspace(name, install_paths, args, capi_config)
        /\ input' = [ctor |-> "from_workspace", name |-> name,
                     capi_config |-> capi_config,
                     install_paths |-> install_paths, args |-> args]
        /\ UNCHANGED <<log, rendered>>

\* A mutator call: the document is replaced by what the mutator makes of it.
Call(op, arg, after) ==
    /\ Constructed
    /\ Len(log) < MaxCalls
    /\ pkg' = after
    /\ log' = Append(log, [op |-> op, arg |-> arg])
    /\ rendered' = << >>
    /\ UNCHANGED input

SetDescription ==
    \E descr \in Descrs : Call("set_description", descr, set_description(pkg, descr))

SetLibs ==
    \E lib \in Libs : Call("set_libs", lib, set_libs(pkg, lib))

AddLib ==
    \E lib \in Libs : Call("add_lib", lib, add_lib(pkg, lib))

SetLibsPrivate ==
    \E lib \in Libs : Call("set_libs_private", lib, set_libs_private(pkg, lib))

AddLibPrivate ==
    \E lib \in Libs : Call("add_lib_private", lib, add_lib_private(pkg, lib))

SetCflags ==
    \E flag \in Flags : Call("set_cflags", flag, set_cflags(pkg, flag))

AddCflag ==
    \E flag \in Flags : Call("add_cflag", flag, add_cflag(pkg, flag))

\* A slip: a render() that takes libs_private out of the document as it
\* writes it.
Render_Draining ==
    /\ Constructed
    /\ rendered' = (IF Len(rendered) < 2 THEN rendered ELSE Tail(rendered))
                   \o << render(pkg) >>
    /\ pkg' = [pkg EXCEPT !.libs_private = << >>]
    /\ UNCHANGED <<input, log>>

\* render(&self): the document is only read; the returned text is recorded.
Render ==
    /\ Constructed
    /\ rendered' = (IF Len(rendered) < 2 THEN rendered ELSE Tail(rendered))
                   \o << render(pkg) >>
    /\ UNCHANGED <<pkg, input, log>>

Next ==
    \/ New
    \/ FromWorkspace
    \/ SetDescription
    \/ SetLibs
    \/ AddLib
    \/ SetLibsPrivate
    \/ AddLibPrivate
    \/ SetCflags
    \/ AddCflag
    \/ Render

Spec == Init /\ [][Next]_vars

(***************************************************************************)
(* Reading a rendered text back: its lines, and the lines of a given kind. *)
(***************************************************************************)
Last(s) == s[Len(s)]

\* The text the most recent render() returned.
Out == Last(rendered)

HasRendered == Constructed /\ rendered # << >>

Max(S) == CHOOSE m \in S : \A n \in S : n <= m

\* The positions of the line feeds of s.
LineFeeds(s) == { i \in 1..Len(s) : SubSeq(s, i, i) = "\n" }

\* The pieces of s between line feeds, in order.  A text ending in a line
\* feed ends with an empty piece.
Lines(s) ==
    LET ends == LineFeeds(s) \cup {Len(s) + 1}
        before(p) == { q \in ends : q < p }
        nth(k) == CHOOSE p \in ends : Cardinality(before(p)) = k - 1
        from(p) == IF before(p) = {} THEN 1 ELSE Max(before(p)) + 1
    IN  [ k \in 1..Cardinality(ends) |-> SubSeq(s, from(nth(k)), nth(k) - 1) ]

StartsWith(l, p) == Len(l) >= Len(p) /\ SubSeq(l, 1, Len(p)) = p

\* The positions of the lines of ls that begin with p.
LinesWith(ls, p) == { i \in 1..Len(ls) : StartsWith(ls[i], p) }

\* The constructor's arguments, and the document it returned.
Cfg == input.capi_config

Constructed0 ==
    IF input.ctor = "new" THEN new(input.name, Cfg)
    ELSE from_workspace(input.name, input.install_paths, input.args, Cfg)

JustConstructed(ctor) == Constructed /\ input.ctor = ctor /\ log = << >>

LastCall == Last(log)

ReplacingOps == {"set_libs", "set_libs_private", "set_cflags"}
AppendingOps == {"add_lib", "add_cflag"}

TestConfig ==
    [header     |-> [name |-> "foo", subdirectory |-> TRUE, generation |-> TRUE],
     pkg_config |-> [name |-> "foo", description |-> "", version |-> "0.1"],
     library    |-> [name |-> "foo", version |-> "0.1.0"]]

(***************************************************************************)
(* C1.  The text render() returns contains a line beginning with           *)
(* `Libs.private:` exactly when libs_private is non-empty, and a line      *)
(* beginning with `Requires:` exactly when requires is non-empty.          *)
(* Stated as the claim states it; render() writes description as it is,    *)
(* line feeds included, so a description can bring such a line with it.    *)
(***************************************************************************)
C1_OptionalLinesIff ==
    HasRendered =>
        LET ls == Lines(Out)
        IN  /\ (LinesWith(ls, "Libs.private:") # {}) <=> (pkg.libs_private # << >>)
            /\ (LinesWith(ls, "Requires:") # {}) <=> (pkg.requires # << >>)

(***************************************************************************)
(* C2.  The text render() returns is laid out as: the four lines prefix=,  *)
(* exec_prefix=, libdir=, includedir=, a blank line, then exactly one      *)
(* line each of Name:, Description:, Version:, Libs:, Cflags: in that      *)
(* order, then at most a Libs.private: line and then at most a Requires:   *)
(* line, and it ends with a single line feed.                              *)
(***************************************************************************)
C2_Layout ==
    HasRendered =>
        LET ls  == Lines(Out)
            n   == Len(ls)
            one(p) == Cardinality(LinesWith(ls, p)) = 1
            at(p)  == CHOOSE i \in LinesWith(ls, p) : TRUE
        IN  /\ n >= 11
            /\ StartsWith(ls[1], "prefix=")
            /\ StartsWith(ls[2], "exec_prefix=")
            /\ StartsWith(ls[3], "libdir=")
            /\ StartsWith(ls[4], "includedir=")
            /\ ls[5] = ""
            /\ one("Name:") /\ one("Description:") /\ one("Version:")
            /\ one("Libs:") /\ one("Cflags:")
            /\ 5 < at("Name:")
            /\ at("Name:") < at("Description:")
            /\ at("Description:") < at("Version:")
            /\ at("Version:") < at("Libs:")
            /\ at("Libs:") < at("Cflags:")
            \* after Cflags: only Libs.private, then Requires, then the end
            /\ \A i \in (at("Cflags:") + 1)..(n - 1) :
                   \/ StartsWith(ls[i], "Libs.private:") /\ i = at("Cflags:") + 1
                   \/ StartsWith(ls[i], "Requires:") /\ i = n - 1
            \* a single trailing line feed
            /\ ls[n] = "" /\ ls[n - 1] # ""

\* No text of the document holds a line feed.
SingleLine ==
    /\ \A f \in {"name", "description", "version"} : LineFeeds(pkg[f]) = {}
    /\ \A f \in {"libs", "libs_private", "cflags", "requires"} :
           \A i \in 1..Len(pkg[f]) : LineFeeds(pkg[f][i]) = {}
    /\ \A f \in {"prefix", "exec_prefix", "libdir", "includedir"} :
           LineFeeds(display(pkg[f])) = {}

\* What does hold of the layout: both statements above, for the documents
\* whose texts are single lines.
SingleLineLayout ==
    (HasRendered /\ SingleLine) => (C1_OptionalLinesIff /\ C2_Layout)

(***************************************************************************)
(* C3.  render() leaves every field of the document as it was, and two     *)
(* render() calls with no constructor or mutator call between them return  *)
(* the same text.                                                          *)
(***************************************************************************)
C3_RenderPure ==
    [][ (Constructed /\ log' = log) =>
            /\ pkg' = pkg
            /\ rendered' # << >>
            /\ \A i, j \in 1..Len(rendered') : rendered'[i] = rendered'[j] ]_vars

C3_Witness ==
    /\ HasRendered
    /\ Len(rendered) = 2
    /\ pkg.libs_private # << >>
    /\ log # << >>

(***************************************************************************)
(* C4.  Right after new(name, capi_config) the four paths are the          *)
(* placeholders /usr/local, ${prefix}, ${prefix}/include and               *)
(* ${exec_prefix}/lib; libs is the one entry -L${libdir} -l<library name>; *)
(* cflags is the one entry -I${includedir}/<name> with the subdirectory    *)
(* flag and -I${includedir} without it; description and version are those  *)
(* of the package metadata; the other four sequences are empty.            *)
(***************************************************************************)
C4_NewDefaults ==
    JustConstructed("new") =>
        /\ pkg.prefix = Path("/usr/local")
        /\ pkg.exec_prefix = Path("${prefix}")
        /\ pkg.includedir = Path("${prefix}/include")
        /\ pkg.libdir = Path("${exec_prefix}/lib")
        /\ pkg.libs = << "-L${libdir} -l" \o Cfg.library.name >>
        /\ pkg.cflags = << IF Cfg.header.subdirectory
                           THEN "-I${includedir}/" \o input.name
                           ELSE "-I${includedir}" >>
        /\ pkg.description = Cfg.pkg_config.description
        /\ pkg.version = Cfg.pkg_config.version
        /\ pkg.libs_private = << >>
        /\ pkg.requires = << >>
        /\ pkg.requires_private = << >>
        /\ pkg.conflicts = << >>

C4_Witness ==
    /\ JustConstructed("new")
    /\ Cfg.header.subdirectory
    /\ Cfg.pkg_config.name # input.name
    /\ Cfg.library.name # input.name
    /\ pkg.cflags = << "-I${includedir}/foo" >>

(***************************************************************************)
(* C5.  libs holds at least one entry in every state of a constructed      *)
(* document: a replacing call leaves exactly its argument, an appending    *)
(* call leaves its argument last behind what was there.                    *)
(***************************************************************************)
C5_LibsNonEmpty ==
    Constructed =>
        /\ Len(pkg.libs) >= 1
        /\ log # << >> =>
              /\ LastCall.op \in ReplacingOps => pkg.libs = << LastCall.arg >>
              /\ LastCall.op \in AppendingOps =>
                     Len(pkg.libs) >= 2 /\ Last(pkg.libs) = LastCall.arg

C5_Witness ==
    /\ Constructed
    /\ Len(log) = 2
    /\ log[1].op = "set_libs"
    /\ log[2].op = "set_libs_private"
    /\ Len(pkg.libs) = 1

(***************************************************************************)
(* C6.  Right after from_workspace the document is the one new() returns   *)
(* with prefix replaced by the install prefix, includedir replaced by the  *)
(* install includedir only if the option `includedir` is present, libdir   *)
(* replaced by the install libdir only if the option `libdir` is present;  *)
(* exec_prefix is still ${prefix}.                                         *)
(***************************************************************************)
C6_FromWorkspace ==
    JustConstructed("from_workspace") =>
        /\ pkg = [ new(input.name, Cfg) EXCEPT
                     !.prefix = input.install_paths.prefix,
                     !.includedir = IF "includedir" \in input.args
                                    THEN input.install_paths.includedir
                                    ELSE Path("${prefix}/include"),
                     !.libdir = IF "libdir" \in input.args
                                THEN input.install_paths.libdir
                                ELSE Path("${exec_prefix}/lib") ]
        /\ pkg.exec_prefix = Path("${prefix}")

C6_Witness ==
    /\ JustConstructed("from_workspace")
    /\ input.args = {"includedir"}
    /\ pkg.includedir = input.install_paths.includedir
    /\ pkg.libdir = Path("${exec_prefix}/lib")
    /\ pkg.prefix # Path("/usr/local")

(***************************************************************************)
(* C7.  As claimed: name, description and version are empty only if the    *)
(* constructor's config gave an empty value for that field.                *)
(***************************************************************************)
C7_AlwaysSet ==
    Constructed =>
        /\ pkg.name = "" => Cfg.pkg_config.name = ""
        /\ pkg.description = "" => Cfg.pkg_config.description = ""
        /\ pkg.version = "" => Cfg.pkg_config.version = ""

\* The description in force: the argument of the most recent
\* set_description call, the config's description when there was none.
DescriptionCalls == { i \in 1..Len(log) : log[i].op = "set_description" }

ExpectedDescription ==
    IF DescriptionCalls = {} THEN Cfg.pkg_config.description
    ELSE log[Max(DescriptionCalls)].arg

(***************************************************************************)
(* C7, amended.  name and version are empty only if the config gave an     *)
(* empty value for them; description is the text of the most recent        *)
(* set_description call (the config's description if there was none), so   *)
(* it is empty only if that text is empty.                                 *)
(***************************************************************************)
C7_SetAsGiven ==
    Constructed =>
        /\ pkg.name = "" => Cfg.pkg_config.name = ""
        /\ pkg.version = "" => Cfg.pkg_config.version = ""
        /\ pkg.description = ExpectedDescription
        /\ pkg.description = "" => ExpectedDescription = ""

C7_Witness ==
    /\ Constructed
    /\ Cfg.pkg_config.description # ""
    /\ log # << >>
    /\ LastCall = [op |-> "set_description", arg |-> ""]
    /\ pkg.description = ""
    /\ pkg.name # "" /\ pkg.version # ""

(***************************************************************************)
(* C8.  Every mutator step: set_libs_private(x) and set_cflags(x) replace  *)
(* libs by the single entry x, add_cflag(x) appends x to libs, and all     *)
(* three leave every other field (libs_private and cflags among them) as   *)
(* it was; add_lib_private(x) appends x to libs_private and changes        *)
(* nothing else, and no other mutator changes libs_private.                *)
(***************************************************************************)
C8_Routing ==
    [][ (Constructed /\ log' # log) =>
            LET c == Last(log')
            IN  /\ c.op \in {"set_libs_private", "set_cflags"} =>
                       pkg' = [pkg EXCEPT !.libs = << c.arg >>]
                /\ c.op = "add_cflag" =>
                       pkg' = [pkg EXCEPT !.libs = pkg.libs \o << c.arg >>]
                /\ c.op = "add_lib_private" =>
                       pkg' = [pkg EXCEPT !.libs_private =
                                              pkg.libs_private \o << c.arg >>]
                /\ c.op # "add_lib_private" =>
                       pkg'.libs_private = pkg.libs_private ]_vars

C8_Witness ==
    /\ Constructed
    /\ Len(log) = 2
    /\ log[1].op = "set_cflags"
    /\ log[2].op = "add_cflag"
    /\ pkg.libs = << log[1].arg, log[2].arg >>
    /\ pkg.cflags = Constructed0.cflags
    /\ pkg.libs_private = << >>

\* What libs should hold after the calls of l, starting from h.
RECURSIVE History(_, _)
History(h, l) ==
    IF l = << >> THEN h
    ELSE History(IF Head(l).op \in ReplacingOps THEN << Head(l).arg >>
                 ELSE IF Head(l).op \in AppendingOps THEN h \o << Head(l).arg >>
                 ELSE h,
                 Tail(l))

\* The line of a rendered text that render() writes for a label: the last
\* line beginning with it (what description brings along comes before).
LineOf(ls, label) == ls[Max(LinesWith(ls, label))]

(***************************************************************************)
(* C9.  The `Libs:` line render() writes is `Libs: ` followed by the       *)
(* space-joined history of libs: the argument of the most recent replacing *)
(* call (the constructed default if there was none) and then the argument  *)
(* of every appending call after it, in call order.  For test::simple      *)
(* (new, add_lib("-lbar"), add_cflag("-DFOO")) the lines are               *)
(* `Libs: -L${libdir} -lfoo -lbar -DFOO` and `Cflags: -I${includedir}/foo`.*)
(***************************************************************************)
C9_LibsHistory ==
    HasRendered =>
        LET ls == Lines(Out)
            h  == History(<< "-L${libdir} -l" \o Cfg.library.name >>, log)
        IN  /\ LinesWith(ls, "Libs: ") # {}
            /\ LineOf(ls, "Libs: ") = "Libs: " \o join(h, " ")
            /\ ( /\ input.ctor = "new" /\ input.name = "foo" /\ Cfg = TestConfig
                 /\ log = << [op |-> "add_lib", arg |-> "-lbar"],
                             [op |-> "add_cflag", arg |-> "-DFOO"] >> )
               => /\ LineOf(ls, "Libs: ") = "Libs: -L${libdir} -lfoo -lbar -DFOO"
                  /\ LineOf(ls, "Cflags: ") = "Cflags: -I${includedir}/foo"

C9_Witness ==
    /\ HasRendered
    /\ input.ctor = "new" /\ Cfg = TestConfig
    /\ log = << [op |-> "add_lib", arg |-> "-lbar"],
                [op |-> "add_cflag", arg |-> "-DFOO"] >>
    /\ pkg.libs = << "-L${libdir} -lfoo", "-lbar", "-DFOO" >>

(***************************************************************************)
(* C10.  In every state of a constructed document cflags, requires,        *)
(* requires_private, conflicts, name, version and the four paths are what  *)
(* the constructor made them; cflags holds one entry; the `Cflags:` line   *)
(* render() writes is the constructed default; and render() writes no      *)
(* `Requires:`, `Requires.private:` or `Conflicts:` line after it.         *)
(***************************************************************************)
C10_Frame ==
    Constructed =>
        /\ pkg.cflags = Constructed0.cflags
        /\ pkg.requires = << >>
        /\ pkg.requires_private = << >>
        /\ pkg.conflicts = << >>
        /\ pkg.name = Cfg.pkg_config.name
        /\ pkg.version = Cfg.pkg_config.version
        /\ pkg.prefix = Constructed0.prefix
        /\ pkg.exec_prefix = Constructed0.exec_prefix
        /\ pkg.includedir = Constructed0.includedir
        /\ pkg.libdir = Constructed0.libdir
        /\ Len(pkg.cflags) = 1
        /\ HasRendered =>
              LET ls == Lines(Out)
                  c  == Max(LinesWith(ls, "Cflags: "))
              IN  /\ LinesWith(ls, "Cflags: ") # {}
                  /\ ls[c] = "Cflags: " \o
                             (IF Cfg.header.subdirectory
                              THEN "-I${includedir}/" \o input.name
                              ELSE "-I${includedir}")
                  /\ \A i \in (c + 1)..Len(ls) :
                         /\ ~StartsWith(ls[i], "Requires")
                         /\ ~StartsWith(ls[i], "Conflicts")

C10_Witness ==
    /\ HasRendered
    /\ Len(log) = 2
    /\ log[1].op = "set_cflags"
    /\ log[2].op = "add_cflag"
    /\ pkg.libs_private = << >>
    /\ pkg.cflags = << "-I${includedir}/foo" >>

=============================================================================
